---- MODULE Spec2Model ----
(***************************************************************************)
(* A model of the real-time simulation loop of game.py: the Player state   *)
(* machine, the patrolling Enemy, the Game tick (movement, collision,      *)
(* cull, speed ramp, spawn) and the key handling of App.run.               *)
(*                                                                         *)
(* Numbers.  The program computes with floats.  Every position, velocity   *)
(* and speed of the model is the program's value times ten (a fixed point  *)
(* with one decimal), which holds GRAVITY = 0.7, JUMP_FORCE * 1.10 =       *)
(* -15.4, the base speeds 3.4 / 4.0 / 5.0 and the enemy speeds exactly.    *)
(* The elapsed time dt of a tick enters the program only as dt / 16.67;    *)
(* the model draws that quotient s from whole numbers (dt = s * 16.67 ms), *)
(* so every product stays in tenths.  Pixel sizes and rectangles are in    *)
(* whole pixels, as pygame.Rect keeps them.                                *)
(***************************************************************************)
EXTENDS Integers, Sequences, FiniteSets, TLC

\* ------------------------------------------------------------------ CONFIG
WIDTH == 960
HEIGHT == 540
GROUND_HEIGHT == 70
GROUND_Y == HEIGHT - GROUND_HEIGHT

\* GRAVITY = 0.7, in tenths
GRAVITY == 7
JUMP_FORCE == -14
\* PLAYER_START_SPEED_BASE = 4.0, in tenths
PLAYER_START_SPEED_BASE == 40
\* SPEED_INCREASE_STEP = 0.5, in tenths
SPEED_INCREASE_STEP == 5
SCORE_STEP == 10
PLAYER_MAX_HEALTH == 3
\* the cap of Game.update's speed ramp, 18, in tenths
SPEED_CAP == 180

MIN_SPAWN_DIST == 600
MAX_SPAWN_DIST == 1100

PLAYER_SIZE == [w |-> 96, h |-> 128]
ENEMY_SIZE == [w |-> 96, h |-> 128]
BOX_SIZE == [w |-> 64, h |-> 64]
POTION_SIZE == [w |-> 40, h |-> 40]

\* DIFFICULTY_MOD, in hundredths
DIFFICULTY_MOD == [Easy |-> 85, Normal |-> 100, Hard |-> 125]
\* POTION_BASE_WEIGHT = 0.05, in thousandths
POTION_BASE_WEIGHT == 50

\* the patrol radius of Enemy.__init__
PATROL_RADIUS == 120
\* the forward boost of Player.jump, in pixels
JUMP_BOOST == 10
\* the trailing cutoff of the cull pass, in pixels
CULL_MARGIN == 220
\* Player(100): the player's first world_x
PLAYER_START_X == 100
\* _seed_initial_world: x = 600, range(5)
SEED_START_X == 600
SEED_COUNT == 5

\* ------------------------------------------------------------------ bounds
\* A session is explored while the player is at or left of this world_x.
MaxWorldX == 1100
\* The score up to which the speed ramp is explored on its own.
MaxRampScore == 300
\* A player called on its own is updated while at or left of this world_x.
MaxPlayerX == 300
\* The jump keys pressed in one session.
MaxJumps == 2
\* A stalled frame is explored while the player is at or left of this world_x.
MaxStallX == 120

\* dt / 16.67 of one tick: a zero-length frame, a short frame, a long stall.
DtScales == {0, 20, 60}
\* random.uniform(1.5, 2.5): the ends of the range, in tenths
EnemySpeeds == {15, 25}
\* random.randint(MIN_SPAWN_DIST, MAX_SPAWN_DIST): the ends of the range
SpawnDists == {MIN_SPAWN_DIST, MAX_SPAWN_DIST}
Kinds == {"box", "enemy", "potion"}
\* dt / 16.67 of Player.update and Enemy.update called on their own: from a
\* zero-length frame to a stall of a quarter of a minute
DtUnit == {0, 1, 7, 20, 60, 1000}
\* dt / 16.67 of a stalled frame, some ten seconds long: the player lands on
\* or beyond the furthest entity
DtStall == {525, 600}
\* the amt of take_damage(amt) and heal(amt) called on their own: the
\* default, and amounts up to one more than PLAYER_MAX_HEALTH
Amounts == 1..(PLAYER_MAX_HEALTH + 1)
\* the entities one cull pass removes
CullCounts == {0, 1, 2, 5}

\* ------------------------------------------------------------------ UTILS
\* a pixel count in tenths
Tenths(n) == n * 10

\* int() of a value in tenths: pygame.Rect keeps whole pixels, cut toward 0
ToPixel(v) == IF v >= 0 THEN v \div 10 ELSE -((-v) \div 10)

Min(a, b) == IF a <= b THEN a ELSE b
Max(a, b) == IF a >= b THEN a ELSE b

clamp(v, a, b) == Max(a, Min(b, v))

world_to_screen_x(world_x, camera_x) == world_x - camera_x

\* ------------------------------------------------------------------ Player
NewPlayer(world_x) ==
    [world_x |-> Tenths(world_x), y |-> Tenths(GROUND_Y), vel_y |-> 0,
     state |-> "idle", alive |-> TRUE, health |-> PLAYER_MAX_HEALTH]

on_ground(p) == p.y >= Tenths(GROUND_Y)

\* Each method gives the player after the call and the sounds it triggered.
jump(p) ==
    IF ~p.alive THEN [p |-> p, sfx |-> <<>>]
    ELSE IF on_ground(p)
    THEN [p |-> [p EXCEPT !.vel_y = JUMP_FORCE * 11,
                          !.world_x = @ + Tenths(JUMP_BOOST),
                          !.state = "jump"],
          sfx |-> <<"jump">>]
    ELSE [p |-> p, sfx |-> <<>>]

\* mutant: landing leaves the player below the ground line
apply_gravity_NoClamp(p, s) ==
    LET v == p.vel_y + GRAVITY * s
        y == p.y + v * s
    IN  IF y >= Tenths(GROUND_Y)
        THEN [p EXCEPT !.y = y, !.vel_y = 0,
                       !.state = IF p.state = "jump" THEN "run" ELSE p.state]
        ELSE [p EXCEPT !.y = y, !.vel_y = v]

\* mutant: landing leaves the state "jump"
apply_gravity_KeepJump(p, s) ==
    LET v == p.vel_y + GRAVITY * s
        y == p.y + v * s
    IN  IF y >= Tenths(GROUND_Y)
        THEN [p EXCEPT !.y = Tenths(GROUND_Y), !.vel_y = 0]
        ELSE [p EXCEPT !.y = y, !.vel_y = v]

apply_gravity(p, s) ==
    LET v == p.vel_y + GRAVITY * s
        y == p.y + v * s
    IN  IF y >= Tenths(GROUND_Y)
        THEN [p EXCEPT !.y = Tenths(GROUND_Y), !.vel_y = 0,
                       !.state = IF p.state = "jump" THEN "run" ELSE p.state]
        ELSE [p EXCEPT !.y = y, !.vel_y = v]

die(p) ==
    IF ~p.alive THEN [p |-> p, sfx |-> <<>>]
    ELSE [p |-> [p EXCEPT !.alive = FALSE, !.state = "dead"],
          sfx |-> <<"death">>]

\* mutant: no early return for a dead player
take_damage_NoGuard(p, amt) ==
    IF p.alive /\ p.health = 1
    THEN [p |-> [p EXCEPT !.health = 0, !.alive = FALSE, !.state = "dead"],
          sfx |-> <<>>]
    ELSE LET q == [p EXCEPT !.health = @ - amt]
         IN  IF q.health <= 0
             THEN [p |-> die(q).p, sfx |-> <<"hit">> \o die(q).sfx]
             ELSE [p |-> q, sfx |-> <<"hit">>]

\* mutant: the silent final death forgets alive = False
take_damage_SilentAlive(p, amt) ==
    IF ~p.alive THEN [p |-> p, sfx |-> <<>>]
    ELSE IF p.health = 1
    THEN [p |-> [p EXCEPT !.health = 0, !.state = "dead"], sfx |-> <<>>]
    ELSE LET q == [p EXCEPT !.health = @ - amt]
         IN  IF q.health <= 0
             THEN [p |-> die(q).p, sfx |-> <<"hit">> \o die(q).sfx]
             ELSE [p |-> q, sfx |-> <<"hit">>]

\* mutant: no silent branch, the last point of health goes the generic way
take_damage_NoSilent(p, amt) ==
    IF ~p.alive THEN [p |-> p, sfx |-> <<>>]
    ELSE LET q == [p EXCEPT !.health = @ - amt]
         IN  IF q.health <= 0
             THEN [p |-> die(q).p, sfx |-> <<"hit">> \o die(q).sfx]
             ELSE [p |-> q, sfx |-> <<"hit">>]

take_damage(p, amt) ==
    IF ~p.alive THEN [p |-> p, sfx |-> <<>>]
    ELSE IF p.health = 1
    THEN [p |-> [p EXCEPT !.health = 0, !.alive = FALSE, !.state = "dead"],
          sfx |-> <<>>]
    ELSE LET q == [p EXCEPT !.health = @ - amt]
         IN  IF q.health <= 0
             THEN [p |-> die(q).p, sfx |-> <<"hit">> \o die(q).sfx]
             ELSE [p |-> q, sfx |-> <<"hit">>]

\* mutant: heal without the min
heal_NoCap(p, amt) ==
    IF ~p.alive THEN [p |-> p, sfx |-> <<>>]
    ELSE [p |-> [p EXCEPT !.health = @ + amt], sfx |-> <<"heal">>]

heal(p, amt) ==
    IF ~p.alive THEN [p |-> p, sfx |-> <<>>]
    ELSE [p |-> [p EXCEPT !.health = Min(PLAYER_MAX_HEALTH, @ + amt)],
          sfx |-> <<"heal">>]

\* mutant: a player on the ground is set to "idle"
PlayerUpdate_GroundIdle(p, s, speed) ==
    LET q == apply_gravity(p, s)
        r == IF on_ground(q) /\ q.state \notin {"dead", "jump"}
             THEN [q EXCEPT !.state = "idle"] ELSE q
    IN  [r EXCEPT !.world_x = @ + speed * s]

\* Player.update(dt, game): gravity, the ground state, the auto-run
PlayerUpdate(p, s, speed) ==
    LET q == apply_gravity(p, s)
        r == IF on_ground(q) /\ q.state \notin {"dead", "jump"}
             THEN [q EXCEPT !.state = "run"] ELSE q
    IN  [r EXCEPT !.world_x = @ + speed * s]

\* ------------------------------------------------------------------ Entities
\* Enemy(world_x), Box(world_x), Potion(world_x); id is the object's identity.
\* A box or potion keeps the patrol fields of an enemy at rest.
NewEntity(kind, world_x, id, spd) ==
    IF kind = "enemy"
    THEN [id |-> id, kind |-> kind, world_x |-> world_x,
          left |-> world_x - Tenths(PATROL_RADIUS),
          right |-> world_x + Tenths(PATROL_RADIUS),
          dir |-> -1, speed |-> spd]
    ELSE [id |-> id, kind |-> kind, world_x |-> world_x,
          left |-> world_x, right |-> world_x, dir |-> 0, speed |-> 0]

\* the entities one draw of the type and of the enemy's speed can create at x
NewEntities(kinds, world_x, id) ==
    { NewEntity(k, world_x, id, 0) : k \in kinds \ {"enemy"} }
    \cup { NewEntity("enemy", world_x, id, spd) :
             spd \in IF "enemy" \in kinds THEN EnemySpeeds ELSE {} }

\* mutant: the patrol turns at a bound without clamping to it
EnemyUpdate_NoClamp(e, s) ==
    LET x == e.world_x + e.dir * e.speed * s
    IN  IF x < e.left THEN [e EXCEPT !.world_x = x, !.dir = 1]
        ELSE IF x > e.right THEN [e EXCEPT !.world_x = x, !.dir = -1]
        ELSE [e EXCEPT !.world_x = x]

\* Enemy.update: the patrol
EnemyUpdate(e, s) ==
    LET x == e.world_x + e.dir * e.speed * s
    IN  IF x < e.left THEN [e EXCEPT !.world_x = e.left, !.dir = 1]
        ELSE IF x > e.right THEN [e EXCEPT !.world_x = e.right, !.dir = -1]
        ELSE [e EXCEPT !.world_x = x]

\* e.update(dt, game) of each class
EntityUpdate(e, s) == IF e.kind = "enemy" THEN EnemyUpdate(e, s) ELSE e

\* image.get_rect(midbottom=(x, y)) of an image of the given size
get_rect(size, x, y) ==
    [left |-> ToPixel(x) - size.w \div 2, top |-> ToPixel(y) - size.h,
     w |-> size.w, h |-> size.h]

\* pygame.Rect.colliderect: the rectangles share area
colliderect(a, b) ==
    /\ a.left < b.left + b.w
    /\ b.left < a.left + a.w
    /\ a.top < b.top + b.h
    /\ b.top < a.top + a.h

\* Player.rect(camera_x), with the player's frames loaded
PlayerRect(p, camera_x) ==
    get_rect(PLAYER_SIZE, world_to_screen_x(p.world_x, camera_x), p.y)

\* Enemy.rect, Box.rect, Potion.rect
EntityRect(e, camera_x) ==
    LET sx == world_to_screen_x(e.world_x, camera_x)
    IN  IF e.kind = "enemy" THEN get_rect(ENEMY_SIZE, sx, Tenths(GROUND_Y))
        ELSE IF e.kind = "box" THEN get_rect(BOX_SIZE, sx, Tenths(GROUND_Y))
        ELSE get_rect(POTION_SIZE, sx, Tenths(GROUND_Y - 10))

\* self.entities.remove(e)
Remove(ents, id) == SelectSeq(ents, LAMBDA x : x.id /= id)

\* ------------------------------------------------------------------ Game
\* what the collision pass did with the overlapping entity e: the player
\* before the contact (health, alive, state), the player after it, the sounds
ContactLog(e, before, after, sfx) ==
    [id |-> e.id, kind |-> e.kind, health |-> before.health,
     alive |-> before.alive, state |-> before.state, after |-> after,
     sfx |-> sfx]

\* mutant: the enemy hit stays in the active set
Contact_KeepEnemy(st, e, camera_x) ==
    IF ~colliderect(PlayerRect(st.p, camera_x), EntityRect(e, camera_x))
    THEN st
    ELSE IF e.kind = "enemy"
    THEN LET atk == IF st.p.health = 1 THEN <<"enemy_attack">> ELSE <<>>
             d == take_damage(st.p, 1)
         IN  [p |-> d.p, ents |-> st.ents,
              contacts |-> Append(st.contacts,
                  ContactLog(e, st.p, d.p, atk \o d.sfx))]
    ELSE IF e.kind = "box"
    THEN [st EXCEPT !.contacts = Append(@, ContactLog(e, st.p, st.p, <<>>))]
    ELSE LET h == heal(st.p, 1)
         IN  [p |-> h.p, ents |-> Remove(st.ents, e.id),
              contacts |-> Append(st.contacts,
                  ContactLog(e, st.p, h.p, h.sfx))]

\* mutant: the enemy-attack sound is played at every enemy contact
Contact_AttackAlways(st, e, camera_x) ==
    IF ~colliderect(PlayerRect(st.p, camera_x), EntityRect(e, camera_x))
    THEN st
    ELSE IF e.kind = "enemy"
    THEN LET atk == IF st.p.health >= 1 THEN <<"enemy_attack">> ELSE <<>>
             d == take_damage(st.p, 1)
         IN  [p |-> d.p, ents |-> Remove(st.ents, e.id),
              contacts |-> Append(st.contacts,
                  ContactLog(e, st.p, d.p, atk \o d.sfx))]
    ELSE IF e.kind = "box"
    THEN [st EXCEPT !.contacts = Append(@, ContactLog(e, st.p, st.p, <<>>))]
    ELSE LET h == heal(st.p, 1)
         IN  [p |-> h.p, ents |-> Remove(st.ents, e.id),
              contacts |-> Append(st.contacts,
                  ContactLog(e, st.p, h.p, h.sfx))]

\* mutant: the potion picked up stays in the active set
Contact_KeepPotion(st, e, camera_x) ==
    IF ~colliderect(PlayerRect(st.p, camera_x), EntityRect(e, camera_x))
    THEN st
    ELSE IF e.kind = "enemy"
    THEN LET atk == IF st.p.health = 1 THEN <<"enemy_attack">> ELSE <<>>
             d == take_damage(st.p, 1)
         IN  [p |-> d.p, ents |-> Remove(st.ents, e.id),
              contacts |-> Append(st.contacts,
                  ContactLog(e, st.p, d.p, atk \o d.sfx))]
    ELSE IF e.kind = "box"
    THEN [st EXCEPT !.contacts = Append(@, ContactLog(e, st.p, st.p, <<>>))]
    ELSE LET h == heal(st.p, 1)
         IN  [p |-> h.p, ents |-> st.ents,
              contacts |-> Append(st.contacts,
                  ContactLog(e, st.p, h.p, h.sfx))]

\* mutant: a box damages the player like an enemy
Contact_BoxDamages(st, e, camera_x) ==
    IF ~colliderect(PlayerRect(st.p, camera_x), EntityRect(e, camera_x))
    THEN st
    ELSE IF e.kind = "enemy"
    THEN LET atk == IF st.p.health = 1 THEN <<"enemy_attack">> ELSE <<>>
             d == take_damage(st.p, 1)
         IN  [p |-> d.p, ents |-> Remove(st.ents, e.id),
              contacts |-> Append(st.contacts,
                  ContactLog(e, st.p, d.p, atk \o d.sfx))]
    ELSE IF e.kind = "box"
    THEN LET d == take_damage(st.p, 1)
         IN  [st EXCEPT !.p = d.p,
                        !.contacts = Append(@, ContactLog(e, st.p, d.p, d.sfx))]
    ELSE LET h == heal(st.p, 1)
         IN  [p |-> h.p, ents |-> Remove(st.ents, e.id),
              contacts |-> Append(st.contacts,
                  ContactLog(e, st.p, h.p, h.sfx))]

\* one entity of the collision pass: st = [p, ents, contacts]
Contact(st, e, camera_x) ==
    IF ~colliderect(PlayerRect(st.p, camera_x), EntityRect(e, camera_x))
    THEN st
    ELSE IF e.kind = "enemy"
    THEN LET atk == IF st.p.health = 1 THEN <<"enemy_attack">> ELSE <<>>
             d == take_damage(st.p, 1)
         IN  [p |-> d.p, ents |-> Remove(st.ents, e.id),
              contacts |-> Append(st.contacts,
                  ContactLog(e, st.p, d.p, atk \o d.sfx))]
    ELSE IF e.kind = "box"
    THEN [st EXCEPT !.contacts = Append(@, ContactLog(e, st.p, st.p, <<>>))]
    ELSE LET h == heal(st.p, 1)
         IN  [p |-> h.p, ents |-> Remove(st.ents, e.id),
              contacts |-> Append(st.contacts,
                  ContactLog(e, st.p, h.p, h.sfx))]

\* for e in list(self.entities): the collision pass over the snapshot snap.
\* (The binding nx \in {...} has the pass's state computed once per entity.)
RECURSIVE CollisionPass(_, _, _, _)
CollisionPass(snap, i, st, camera_x) ==
    IF i > Len(snap) THEN st
    ELSE CHOOSE r \in { CollisionPass(snap, i + 1, nx, camera_x) :
                          nx \in {Contact(st, snap[i], camera_x)} } : TRUE

\* mutant: every entity behind the player scores, culled or not
Cull_ScoreBehind(st, e, p) ==
    IF e.world_x < p.world_x - Tenths(CULL_MARGIN)
    THEN [ents |-> Remove(st.ents, e.id),
          score |-> IF p.world_x > e.world_x THEN st.score + 1 ELSE st.score,
          culled |-> Append(st.culled,
              [id |-> e.id, world_x |-> e.world_x, player_x |-> p.world_x,
               scored |-> p.world_x > e.world_x])]
    ELSE IF p.world_x > e.world_x THEN [st EXCEPT !.score = @ + 1]
    ELSE st

\* mutant: the cutoff is 100 units further behind the player
Cull_WideMargin(st, e, p) ==
    IF e.world_x < p.world_x - Tenths(CULL_MARGIN + 100)
    THEN [ents |-> Remove(st.ents, e.id),
          score |-> IF p.world_x > e.world_x THEN st.score + 1 ELSE st.score,
          culled |-> Append(st.culled,
              [id |-> e.id, world_x |-> e.world_x, player_x |-> p.world_x,
               scored |-> p.world_x > e.world_x])]
    ELSE st

\* mutant: entities more than the cutoff ahead of the player are removed too
Cull_BothSides(st, e, p) ==
    IF \/ e.world_x < p.world_x - Tenths(CULL_MARGIN)
       \/ e.world_x > p.world_x + Tenths(CULL_MARGIN)
    THEN [ents |-> Remove(st.ents, e.id),
          score |-> IF p.world_x > e.world_x THEN st.score + 1 ELSE st.score,
          culled |-> Append(st.culled,
              [id |-> e.id, world_x |-> e.world_x, player_x |-> p.world_x,
               scored |-> p.world_x > e.world_x])]
    ELSE st

\* one entity of the cull pass: st = [ents, score, culled]
Cull(st, e, p) ==
    IF e.world_x < p.world_x - Tenths(CULL_MARGIN)
    THEN [ents |-> Remove(st.ents, e.id),
          score |-> IF p.world_x > e.world_x THEN st.score + 1 ELSE st.score,
          culled |-> Append(st.culled,
              [id |-> e.id, world_x |-> e.world_x, player_x |-> p.world_x,
               scored |-> p.world_x > e.world_x])]
    ELSE st

\* for e in list(self.entities): the cull pass over the snapshot snap
RECURSIVE CullPass(_, _, _, _)
CullPass(snap, i, st, p) ==
    IF i > Len(snap) THEN st
    ELSE CHOOSE r \in { CullPass(snap, i + 1, nx, p) :
                          nx \in {Cull(st, snap[i], p)} } : TRUE

\* mutant: the ramp without its cap
SpeedRamp_NoCap(sc, last, spd) ==
    LET milestone == sc \div SCORE_STEP
    IN  IF milestone > last
        THEN [last_milestone |-> milestone, speed |-> spd + SPEED_INCREASE_STEP]
        ELSE [last_milestone |-> last, speed |-> spd]

\* speed increase by score: gives the new last_milestone and speed
SpeedRamp(sc, last, spd) ==
    LET milestone == sc \div SCORE_STEP
    IN  IF milestone > last
        THEN [last_milestone |-> milestone,
              speed |-> IF spd + SPEED_INCREASE_STEP > SPEED_CAP
                        THEN SPEED_CAP ELSE spd + SPEED_INCREASE_STEP]
        ELSE [last_milestone |-> last, speed |-> spd]

\* weights = [0.60, 0.35, clamp(potion_weight, 0.02, 0.15)], in thousandths
SpawnWeights(pw) == [box |-> 600, enemy |-> 350, potion |-> clamp(pw, 20, 150)]

\* the types random.choices can draw: those of positive weight
SpawnKinds(pw) == { k \in Kinds : SpawnWeights(pw)[k] > 0 }

RECURSIVE MaxX(_, _, _)
MaxX(ents, i, m) ==
    IF i > Len(ents) THEN m ELSE MaxX(ents, i + 1, Max(m, ents[i].world_x))

\* max([e.world_x for e in self.entities] + [self.player.world_x])
Furthest(ents, p) == MaxX(ents, 1, p.world_x)

\* the while loop of spawn_if_needed: every outcome of its random draws
RECURSIVE SpawnLoop(_, _, _, _, _)
SpawnLoop(ents, furthest, camera_x, pw, id) ==
    IF ~(furthest < camera_x + Tenths(WIDTH + MIN_SPAWN_DIST))
    THEN {[entities |-> ents, nextId |-> id]}
    ELSE UNION { SpawnLoop(Append(ents, e), e.world_x, camera_x, pw, id + 1) :
                 e \in UNION { NewEntities(SpawnKinds(pw), furthest + Tenths(d), id) :
                               d \in SpawnDists } }

\* mutant: an if in place of the while, at most one entity is spawned
spawn_if_needed_Once(ents, p, camera_x, pw, id) ==
    IF ~(Furthest(ents, p) < camera_x + Tenths(WIDTH + MIN_SPAWN_DIST))
    THEN {[entities |-> ents, nextId |-> id]}
    ELSE { [entities |-> Append(ents, e), nextId |-> id + 1] :
           e \in UNION { NewEntities(SpawnKinds(pw), Furthest(ents, p) + Tenths(d), id) :
                         d \in SpawnDists } }

spawn_if_needed(ents, p, camera_x, pw, id) ==
    SpawnLoop(ents, Furthest(ents, p), camera_x, pw, id)

\* _seed_initial_world with the outcomes of its random draws given: draws.kind
\* (random.choice), draws.speed (Enemy.__init__) and draws.gap (random.randint)
RECURSIVE SeedLoop(_, _, _, _)
SeedLoop(i, x, ents, draws) ==
    IF i > SEED_COUNT THEN ents
    ELSE SeedLoop(i + 1, x + Tenths(draws.gap[i]),
                  Append(ents, NewEntity(draws.kind[i], x, i, draws.speed[i])),
                  draws)

_seed_initial_world(draws) == SeedLoop(1, Tenths(SEED_START_X), <<>>, draws)

\* ------------------------------------------------------------------ state
VARIABLES
    app,            \* App: state, high_score, difficulty
    player,         \* Game.player
    camera_x,       \* Game.camera_x
    base_speed,     \* Game.base_speed
    speed,          \* Game.speed
    score,          \* Game.score
    last_milestone, \* Game.last_milestone
    entities,       \* Game.entities, in list order
    potion_weight,  \* Game.potion_weight
    nextId,         \* the identity the next created entity gets
    jumps,          \* the jump keys pressed in this session
    trace           \* what the last handler did: sounds, contacts, culls

game == <<player, camera_x, base_speed, speed, score, last_milestone,
          entities, potion_weight, nextId>>
vars == <<app, player, camera_x, base_speed, speed, score, last_milestone,
          entities, potion_weight, nextId, jumps, trace>>

\* trace: the handler that ran last (op), its dt / 16.67 (s), the player's
\* state before it (from), and what it did
NoTrace ==
    [op |-> "none", s |-> 0, from |-> "idle", sfx |-> <<>>,
     contacts |-> <<>>, culled |-> <<>>]

Traced(op, s, sfx) == [NoTrace EXCEPT !.op = op, !.s = s, !.from = player.state, !.sfx = sfx]

\* DIFFICULTY_MOD.get(difficulty, 1.0), in hundredths
DifficultyMod(d) == IF d \in DOMAIN DIFFICULTY_MOD THEN DIFFICULTY_MOD[d] ELSE 100

\* Game.__init__: base_speed
BaseSpeed(d) == (PLAYER_START_SPEED_BASE * DifficultyMod(d)) \div 100

\* Game.__init__: potion_weight, in thousandths
PotionWeight(d) ==
    (POTION_BASE_WEIGHT *
       (IF d = "Normal" THEN 10 ELSE IF d = "Easy" THEN 8 ELSE 6)) \div 10

\* The sessions explored: a difficulty setting and the draws of the seeding.
\* Every kind meets the player as the first, second and third entity; the
\* gaps and the speeds are ends of their ranges.
Sessions ==
    { [difficulty |-> "Normal",
       draws |-> [kind |-> <<"enemy", "enemy", "enemy", "box", "potion">>,
                  speed |-> <<25, 15, 25, 0, 0>>,
                  gap |-> <<300, 300, 500, 500, 300>>]],
      [difficulty |-> "Easy",
       draws |-> [kind |-> <<"potion", "enemy", "potion", "box", "enemy">>,
                  speed |-> <<0, 25, 0, 0, 15>>,
                  gap |-> <<300, 300, 500, 500, 500>>]],
      [difficulty |-> "Hard",
       draws |-> [kind |-> <<"box", "enemy", "enemy", "potion", "enemy">>,
                  speed |-> <<0, 15, 25, 0, 25>>,
                  gap |-> <<300, 300, 500, 500, 300>>]],
      [difficulty |-> "Insane",
       draws |-> [kind |-> <<"enemy", "potion", "enemy", "enemy", "box">>,
                  speed |-> <<15, 0, 25, 15, 0>>,
                  gap |-> <<300, 300, 500, 500, 500>>]] }

\* App.start_game: Game(screen, settings) with the seeds ents, state "playing"
StartSession(d, hs, ents) ==
    /\ app = [state |-> "playing", high_score |-> hs, difficulty |-> d]
    /\ player = NewPlayer(PLAYER_START_X)
    /\ camera_x = 0
    /\ base_speed = BaseSpeed(d)
    /\ speed = BaseSpeed(d)
    /\ score = 0
    /\ last_milestone = -1
    /\ entities = ents
    /\ potion_weight = PotionWeight(d)
    /\ nextId = SEED_COUNT + 1
    /\ jumps = 0
    /\ trace = NoTrace

Init ==
    \E ses \in Sessions :
        StartSession(ses.difficulty, 0, _seed_initial_world(ses.draws))

\* the sounds of a tick, in the order they were triggered
RECURSIVE ContactSfx(_, _)
ContactSfx(cs, i) ==
    IF i > Len(cs) THEN <<>> ELSE cs[i].sfx \o ContactSfx(cs, i + 1)

\* Game.update(dt) of a live player: the passes in the order of the code.
\* Each gets the values the pass before it left.
MovePass(s) ==
    [p |-> PlayerUpdate(player, s, speed),
     ents |-> [i \in 1..Len(entities) |-> EntityUpdate(entities[i], s)]]

CameraFollow(p) == p.world_x - (Tenths(WIDTH) * 35) \div 100

Collisions(mv) ==
    CollisionPass(mv.ents, 1, [p |-> mv.p, ents |-> mv.ents, contacts |-> <<>>],
                  CameraFollow(mv.p))

Culls(col) ==
    CullPass(col.ents, 1, [ents |-> col.ents, score |-> score, culled |-> <<>>],
             col.p)

\* every outcome of spawn_if_needed after the passes, as the tick's result
Spawns(s, col, cul, ramp) ==
    { [player |-> col.p, camera_x |-> CameraFollow(col.p), score |-> cul.score,
       last_milestone |-> ramp.last_milestone, speed |-> ramp.speed,
       entities |-> sp.entities, nextId |-> sp.nextId,
       trace |-> [Traced("tick", s, ContactSfx(col.contacts, 1)) EXCEPT
                    !.contacts = col.contacts, !.culled = cul.culled]] :
      sp \in spawn_if_needed(cul.ents, col.p, CameraFollow(col.p),
                             potion_weight, nextId) }

GameUpdate(s) ==
    UNION { UNION { UNION { UNION { Spawns(s, col, cul, ramp) :
            ramp \in {SpeedRamp(cul.score, last_milestone, speed)} } :
            cul \in {Culls(col)} } :
            col \in {Collisions(mv)} } :
            mv \in {MovePass(s)} }

\* App.update_game: after game.update, a dead player's score is the high score
HighScore(hs, p, sc) == IF ~p.alive /\ sc > hs THEN sc ELSE hs

\* the session is explored while the player is within the horizon, and to
\* the end of a flight that started within it
InHorizon == player.world_x <= Tenths(MaxWorldX)

\* mutant: the early return is also taken while the player is in the air
Game_update_SkipAirborne(s) ==
    IF ~player.alive \/ ~on_ground(player)
    THEN { [player |-> player, camera_x |-> camera_x, score |-> score,
            last_milestone |-> last_milestone, speed |-> speed,
            entities |-> entities, nextId |-> nextId,
            trace |-> Traced("tick", s, <<>>)] }
    ELSE GameUpdate(s)

\* mutant: no early return, a dead player is simulated like a live one
Game_update_NoGuard(s) == GameUpdate(s)

\* Game.update(dt): every outcome of the tick, the draws of the spawn included.
\* A player that is not alive returns at once.
Game_update(s) ==
    IF ~player.alive
    THEN { [player |-> player, camera_x |-> camera_x, score |-> score,
            last_milestone |-> last_milestone, speed |-> speed,
            entities |-> entities, nextId |-> nextId,
            trace |-> Traced("tick", s, <<>>)] }
    ELSE GameUpdate(s)

\* App.update_game(dt) in state "playing": Game.update(dt), then the high score
Tick(s) ==
    /\ app.state = "playing"
    /\ InHorizon \/ ~on_ground(player) \/ ~player.alive
    /\ \E g \in Game_update(s) :
          /\ player' = g.player
          /\ camera_x' = g.camera_x
          /\ score' = g.score
          /\ last_milestone' = g.last_milestone
          /\ speed' = g.speed
          /\ entities' = g.entities
          /\ nextId' = g.nextId
          /\ trace' = g.trace
          /\ app' = [app EXCEPT !.high_score = HighScore(@, g.player, g.score)]
    /\ UNCHANGED <<base_speed, potion_weight, jumps>>

\* App.run, KEYDOWN of space / w / up in state "playing"
Jump ==
    /\ app.state = "playing"
    /\ InHorizon
    /\ jumps < MaxJumps
    /\ player.alive
    /\ player' = jump(player).p
    /\ jumps' = jumps + 1
    /\ trace' = Traced("jump", 0, jump(player).sfx)
    /\ UNCHANGED <<app, camera_x, base_speed, speed, score, last_milestone,
                   entities, potion_weight, nextId>>

Next == (\E s \in DtScales : Tick(s)) \/ Jump

Spec == Init /\ [][Next]_vars

\* ------------------------------------------------------------------ Player alone
\* The methods of one Player called directly, in any order.
CallJump ==
    /\ jumps < MaxJumps
    /\ player' = jump(player).p
    /\ jumps' = jumps + 1
    /\ trace' = Traced("jump", 0, jump(player).sfx)
    /\ UNCHANGED <<app, camera_x, base_speed, speed, score, last_milestone,
                   entities, potion_weight, nextId>>

CallUpdate(s) ==
    /\ player.world_x <= Tenths(MaxPlayerX)
    /\ player' = PlayerUpdate(player, s, speed)
    /\ trace' = Traced("update", s, <<>>)
    /\ UNCHANGED <<app, camera_x, base_speed, speed, score, last_milestone,
                   entities, potion_weight, nextId, jumps>>

CallTakeDamage ==
    /\ player' = take_damage(player, 1).p
    /\ trace' = Traced("take_damage", 0, take_damage(player, 1).sfx)
    /\ UNCHANGED <<app, camera_x, base_speed, speed, score, last_milestone,
                   entities, potion_weight, nextId, jumps>>

CallHeal ==
    /\ player' = heal(player, 1).p
    /\ trace' = Traced("heal", 0, heal(player, 1).sfx)
    /\ UNCHANGED <<app, camera_x, base_speed, speed, score, last_milestone,
                   entities, potion_weight, nextId, jumps>>

PlayerNext ==
    \/ CallJump
    \/ \E s \in DtUnit : CallUpdate(s)
    \/ CallTakeDamage
    \/ CallHeal

PlayerSpec == Init /\ [][PlayerNext]_vars

\* ------------------------------------------------------------------ Damage and heal amounts
\* take_damage(amt) and heal(amt) of one Player called directly with any
\* amount, in any order, on the ground and after a jump
CallTakeDamageAmt(amt) ==
    /\ player' = take_damage(player, amt).p
    /\ trace' = Traced("take_damage", 0, take_damage(player, amt).sfx)
    /\ UNCHANGED <<app, camera_x, base_speed, speed, score, last_milestone,
                   entities, potion_weight, nextId, jumps>>

CallHealAmt(amt) ==
    /\ player' = heal(player, amt).p
    /\ trace' = Traced("heal", 0, heal(player, amt).sfx)
    /\ UNCHANGED <<app, camera_x, base_speed, speed, score, last_milestone,
                   entities, potion_weight, nextId, jumps>>

AmountNext ==
    \/ CallJump
    \/ \E amt \in Amounts : CallTakeDamageAmt(amt)
    \/ \E amt \in Amounts : CallHealAmt(amt)

AmountSpec == Init /\ [][AmountNext]_vars

\* ------------------------------------------------------------------ Enemies alone
\* for e in list(self.entities): e.update(dt, self), called on its own
UpdateEntities(s) ==
    /\ entities' = [i \in 1..Len(entities) |-> EntityUpdate(entities[i], s)]
    /\ trace' = Traced("entities", s, <<>>)
    /\ UNCHANGED <<app, player, camera_x, base_speed, speed, score,
                   last_milestone, potion_weight, nextId, jumps>>

EnemyNext == \E s \in DtUnit : UpdateEntities(s)

EnemySpec == Init /\ [][EnemyNext]_vars

\* ------------------------------------------------------------------ Speed ramp alone
\* Game.update seen from the score: the cull pass scores k entities, the
\* speed ramp follows
RampTick(k) ==
    /\ score <= MaxRampScore
    /\ score' = score + k
    /\ last_milestone' = SpeedRamp(score + k, last_milestone, speed).last_milestone
    /\ speed' = SpeedRamp(score + k, last_milestone, speed).speed
    /\ trace' = Traced("ramp", 0, <<>>)
    /\ UNCHANGED <<app, player, camera_x, base_speed, entities, potion_weight,
                   nextId, jumps>>

RampNext == \E k \in CullCounts : RampTick(k)

RampSpec == Init /\ [][RampNext]_vars

\* ------------------------------------------------------------------ Fairness
\* App.run calls update_game once per frame: frames of positive length keep
\* coming
PositiveTick == \E s \in DtScales \ {0} : Tick(s)

\* the sessions whose first entity is an enemy
FairInit ==
    \E ses \in { x \in Sessions : x.draws.kind[1] = "enemy" } :
        StartSession(ses.difficulty, 0, _seed_initial_world(ses.draws))

FairSpec == FairInit /\ [][Next]_vars /\ WF_vars(PositiveTick)

\* ------------------------------------------------------------------ Stalled frames
\* a session whose seeds are as close together as _seed_initial_world can
\* place them: random.randint(300, 500) gives 300 every time
DenseSessions ==
    { [difficulty |-> "Normal",
       draws |-> [kind |-> <<"box", "potion", "enemy", "box", "enemy">>,
                  speed |-> <<0, 0, 15, 0, 25>>,
                  gap |-> <<300, 300, 300, 300, 300>>]] }

StallInit ==
    \E ses \in Sessions \cup DenseSessions :
        StartSession(ses.difficulty, 0, _seed_initial_world(ses.draws))

\* App.update_game(dt) after a frame that took very long (clock.tick gives
\* the whole elapsed time as dt)
StallTick(s) ==
    /\ player.world_x <= Tenths(MaxStallX)
    /\ Tick(s)

StallNext == Next \/ (\E s \in DtStall : StallTick(s))

StallSpec == StallInit /\ [][StallNext]_vars

\* ------------------------------------------------------------------ App
\* App.start_game: a new Game of the App's difficulty replaces the current
\* one, if any; high_score is not touched
start_game(op) ==
    \E ses \in { x \in Sessions : x.difficulty = app.difficulty } :
        /\ app' = [app EXCEPT !.state = "playing"]
        /\ player' = NewPlayer(PLAYER_START_X)
        /\ camera_x' = 0
        /\ base_speed' = BaseSpeed(app.difficulty)
        /\ speed' = BaseSpeed(app.difficulty)
        /\ score' = 0
        /\ last_milestone' = -1
        /\ entities' = _seed_initial_world(ses.draws)
        /\ potion_weight' = PotionWeight(app.difficulty)
        /\ nextId' = SEED_COUNT + 1
        /\ jumps' = 0
        /\ trace' = Traced(op, 0, <<>>)

\* App.run, KEYDOWN of r in state "playing"
Restart ==
    /\ app.state = "playing"
    /\ start_game("restart")

\* App.run, a click on the Start button in state "menu"
MenuStart ==
    /\ app.state = "menu"
    /\ start_game("start")

\* App.run, KEYDOWN of escape in state "playing": App.end_game.  self.game
\* = None: the session's fields are gone, the model clears them.
EndGame ==
    /\ app.state = "playing"
    /\ app' = [app EXCEPT !.state = "menu",
                          !.high_score = IF score > @ THEN score ELSE @]
    /\ player' = NewPlayer(PLAYER_START_X)
    /\ camera_x' = 0
    /\ score' = 0
    /\ last_milestone' = -1
    /\ speed' = base_speed
    /\ entities' = <<>>
    /\ nextId' = 1
    /\ jumps' = 0
    /\ trace' = Traced("end_game", 0, <<>>)
    /\ UNCHANGED <<base_speed, potion_weight>>

AppNext == Next \/ Restart \/ MenuStart \/ EndGame

AppSpec == Init /\ [][AppNext]_vars

\* ------------------------------------------------------------------ Claims
Airborne == player.y < Tenths(GROUND_Y)
Grounded == player.y = Tenths(GROUND_Y)
EnemyContacts == { i \in DOMAIN trace.contacts : trace.contacts[i].kind = "enemy" }
PotionContacts == { i \in DOMAIN trace.contacts : trace.contacts[i].kind = "potion" }
BoxContacts == { i \in DOMAIN trace.contacts : trace.contacts[i].kind = "box" }
\* the identities of the entities of a list
Ids(ents) == { ents[j].id : j \in DOMAIN ents }
\* x is one of the sounds of the sequence sfx
Played(x, sfx) == \E k \in DOMAIN sfx : sfx[k] = x

\* C1: in every state of a session player.health is an integer in
\* [0, PLAYER_MAX_HEALTH]; heal never raises it above PLAYER_MAX_HEALTH.
C1_HealthInRange == player.health \in 0..PLAYER_MAX_HEALTH

\* a potion was picked up at full health, and health is still the maximum
C1_Witness ==
    /\ \E i \in PotionContacts :
          trace.contacts[i].health = PLAYER_MAX_HEALTH /\ trace.contacts[i].alive
    /\ player.health = PLAYER_MAX_HEALTH

\* C2: each take_damage(1) on a live player lowers health by exactly 1;
\* health is 0 exactly when the player is not alive; a player that is not
\* alive never becomes alive again, and take_damage on it changes nothing.
C2_DamageSequence ==
    [][ /\ (~player.alive => ~player'.alive)
        /\ (player'.health = 0 <=> ~player'.alive)
        /\ (trace'.op = "take_damage" =>
              IF player.alive
              THEN player'.health = player.health - 1
              ELSE player' = player /\ trace'.sfx = <<>>) ]_vars

\* take_damage was called on a player already dead
C2_Witness ==
    /\ trace.op = "take_damage"
    /\ trace.from = "dead"
    /\ ~player.alive
    /\ player.health = 0

\* C3: in every state of a session player.alive is true exactly when
\* player.health > 0, and player.alive is false exactly when state is "dead".
C3_AliveIffHealth ==
    /\ player.alive <=> player.health > 0
    /\ ~player.alive <=> player.state = "dead"

\* the tick whose enemy contact killed the player
C3_Witness ==
    /\ trace.op = "tick"
    /\ EnemyContacts /= {}
    /\ ~player.alive
    /\ player.health = 0
    /\ player.state = "dead"

\* C4 as stated: the state changes only along Idle->Running, Running->Jumping,
\* Jumping->Running and any->Dead; Idle is never re-entered, Dead never left.
C4_Original ==
    [][ player'.state /= player.state =>
          /\ player.state /= "dead"
          /\ \/ player'.state = "dead"
             \/ <<player.state, player'.state>> \in
                  {<<"idle", "run">>, <<"run", "jump">>, <<"jump", "run">>} ]_vars

\* C4 amended: the edges are those and Idle->Jumping (a jump key before the
\* first tick); Idle is never re-entered, Dead never left.
C4_Edges ==
    [][ player'.state /= player.state =>
          /\ player.state /= "dead"
          /\ \/ player'.state = "dead"
             \/ <<player.state, player'.state>> \in
                  {<<"idle", "run">>, <<"idle", "jump">>, <<"run", "jump">>,
                   <<"jump", "run">>} ]_vars

\* a jump key took the player from Idle to Jumping
C4_Witness ==
    /\ trace.op = "jump"
    /\ trace.from = "idle"
    /\ player.state = "jump"

\* C5: from a successful jump() until the player has landed (state back to
\* Running) a further jump() changes nothing and triggers no jump sound,
\* also when it comes before the next tick.
C5_Original ==
    [][ (trace'.op = "jump" /\ player.state = "jump") =>
          (player' = player /\ trace'.sfx = <<>>) ]_vars

\* C6: player.y <= GROUND_Y in every state, whatever the jumps and the dt of
\* the updates, a very large dt included.
C6_NeverBelowGround == player.y <= Tenths(GROUND_Y)

\* an update of a very large dt landed the player from a jump
C6_Witness ==
    /\ trace.op = "update"
    /\ trace.s = 1000
    /\ trace.from = "jump"
    /\ player.state = "run"
    /\ Grounded

\* C7 as stated: with ticks of positive dt kept coming, a player in the air
\* is eventually at y = GROUND_Y again, whatever happens in between.
C7_Original == Airborne ~> Grounded

\* C7 amended: with ticks of positive dt kept coming, a player in the air is
\* eventually at y = GROUND_Y again or has died in the air.
C7_LandsOrDies == Airborne ~> (Grounded \/ ~player.alive)

\* a live player in the air, hit by an enemy in the tick just run
C7_Witness ==
    /\ trace.op = "tick"
    /\ EnemyContacts /= {}
    /\ player.alive
    /\ Airborne

\* C8: after every Enemy.update, of any dt, an enemy is within its patrol
\* bounds, which are its spawn point -/+ PATROL_RADIUS.
C8_EnemyInBounds ==
    \A i \in DOMAIN entities :
        entities[i].kind = "enemy" =>
            /\ entities[i].left <= entities[i].world_x
            /\ entities[i].world_x <= entities[i].right
            /\ entities[i].right - entities[i].left = 2 * Tenths(PATROL_RADIUS)

\* one update of a very large dt left an enemy clamped at its left bound
C8_Witness ==
    /\ trace.op = "entities"
    /\ trace.s = 1000
    /\ \E i \in DOMAIN entities :
          /\ entities[i].kind = "enemy"
          /\ entities[i].world_x = entities[i].left
          /\ entities[i].dir = 1

\* C9: the score never decreases; a tick raises it by exactly the number of
\* entities its cull pass removed that were behind the player, and nothing
\* else (a contact, a jump) raises it.
C9_ScoreByCull ==
    [][ /\ score' >= score
        /\ score' = score + Cardinality({ i \in DOMAIN trace'.culled :
                        trace'.culled[i].world_x < trace'.culled[i].player_x }) ]_vars

\* a tick culled an entity and the score is positive
C9_Witness ==
    /\ trace.op = "tick"
    /\ trace.culled /= <<>>
    /\ score > 0

\* C10: the session speed never decreases from tick to tick and is never
\* above the cap, for every difficulty.
C10_SpeedMonotoneCapped ==
    [][ speed' >= speed /\ speed' <= SPEED_CAP ]_vars

\* the ramp has reached the cap
C10_Witness ==
    /\ trace.op = "ramp"
    /\ speed = SPEED_CAP
    /\ last_milestone > 0

\* C11: the speed rises in a step exactly when score div SCORE_STEP rose in
\* it, and then by one SPEED_INCREASE_STEP up to the cap; so the speed is the
\* base speed for as long as the score is below SCORE_STEP.
C11_Original ==
    [][ /\ (speed' > speed <=> score' \div SCORE_STEP > score \div SCORE_STEP)
        /\ (speed' /= speed =>
              speed' = Min(SPEED_CAP, speed + SPEED_INCREASE_STEP))
        /\ (score' < SCORE_STEP => speed' = base_speed') ]_vars

\* C12: an enemy overlapping a live player lowers health by exactly 1 and is
\* removed from the active set in the same tick; it is hit once in the tick
\* and, identities being never reused, can never hit again; the enemy-attack
\* sound is not triggered when health was 2 or 3 at the contact.
C12_EnemyContact ==
    [][ /\ \A i \in DOMAIN trace'.contacts :
              LET c == trace'.contacts[i]
              IN  (c.kind = "enemy" /\ c.alive) =>
                    /\ c.after.health = c.health - 1
                    /\ c.id \in Ids(entities)
                    /\ c.id \notin Ids(entities')
                    /\ \A k \in DOMAIN trace'.contacts :
                          k /= i => trace'.contacts[k].id /= c.id
                    /\ (c.health \in {2, 3} => ~Played("enemy_attack", c.sfx))
        /\ \A id \in Ids(entities) : id < nextId
        /\ \A id \in Ids(entities') \ Ids(entities) : id >= nextId ]_vars

\* a tick in which an enemy met the player at full health: health is 2, the
\* enemy is gone, only the hit sound was played
C12_Witness ==
    /\ trace.op = "tick"
    /\ \E i \in EnemyContacts :
          /\ trace.contacts[i].health = PLAYER_MAX_HEALTH
          /\ trace.contacts[i].alive
          /\ trace.contacts[i].sfx = <<"hit">>
          /\ trace.contacts[i].id \notin Ids(entities)
    /\ player.health = PLAYER_MAX_HEALTH - 1

\* C13: an enemy overlapping a live player of health 1 triggers the
\* enemy-attack sound and no hit sound, and leaves health 0, alive false and
\* the state Dead; nothing else triggers the enemy-attack sound.
C13_FatalContact ==
    /\ \A i \in DOMAIN trace.contacts :
          LET c == trace.contacts[i]
          IN  /\ (c.kind = "enemy" /\ c.alive /\ c.health = 1) =>
                    /\ c.sfx = <<"enemy_attack">>
                    /\ c.after.health = 0
                    /\ ~c.after.alive
                    /\ c.after.state = "dead"
                    /\ ~player.alive /\ player.health = 0 /\ player.state = "dead"
              /\ Played("enemy_attack", c.sfx) =>
                    (c.kind = "enemy" /\ c.alive /\ c.health = 1)
    /\ Played("enemy_attack", trace.sfx) =>
          \E i \in EnemyContacts :
              trace.contacts[i].alive /\ trace.contacts[i].health = 1

\* the tick in which an enemy met a live player of health 1: the only sound
\* of the contact is the enemy attack, and the player is dead
C13_Witness ==
    /\ trace.op = "tick"
    /\ \E i \in EnemyContacts :
          /\ trace.contacts[i].health = 1
          /\ trace.contacts[i].alive
          /\ trace.contacts[i].sfx = <<"enemy_attack">>
    /\ ~Played("hit", trace.sfx)
    /\ player.state = "dead"

\* C14: a potion overlapping a live player leaves health at
\* min(PLAYER_MAX_HEALTH, health + 1) and is removed from the active set in
\* the same tick, also at full health; it is applied once in the tick and,
\* identities being never reused, never again.
C14_PotionContact ==
    [][ /\ \A i \in DOMAIN trace'.contacts :
              LET c == trace'.contacts[i]
              IN  (c.kind = "potion" /\ c.alive) =>
                    /\ c.after.health = Min(PLAYER_MAX_HEALTH, c.health + 1)
                    /\ c.id \in Ids(entities)
                    /\ c.id \notin Ids(entities')
                    /\ \A k \in DOMAIN trace'.contacts :
                          k /= i => trace'.contacts[k].id /= c.id
        /\ \A j, k \in DOMAIN entities' :
              entities'[j].id = entities'[k].id => j = k
        /\ \A id \in Ids(entities') \ Ids(entities) : id >= nextId
        /\ nextId' >= nextId ]_vars

\* a tick in which a live player of health 2 picked up a potion: health is
\* 3 and the potion is gone
C14_Witness ==
    /\ trace.op = "tick"
    /\ \E i \in PotionContacts :
          /\ trace.contacts[i].health = PLAYER_MAX_HEALTH - 1
          /\ trace.contacts[i].alive
          /\ trace.contacts[i].after.health = PLAYER_MAX_HEALTH
          /\ trace.contacts[i].id \notin Ids(entities)

\* C15: after session creation and after every tick and jump input the
\* furthest of the active entities and the player is at or beyond
\* camera_x + WIDTH + MIN_SPAWN_DIST, also when the tick removed the furthest
\* entity and when the player has died.
C15_SpawnAhead ==
    Furthest(entities, player) >= camera_x + Tenths(WIDTH + MIN_SPAWN_DIST)

\* a stalled frame carried the player past every entity: the cull pass
\* removed them all, the furthest included, and the spawner refilled the set
C15_Witness ==
    /\ trace.op = "tick"
    /\ trace.s \in DtStall
    /\ Len(trace.culled) + Len(trace.contacts) >= SEED_COUNT
    /\ \A i \in DOMAIN entities : entities[i].id > SEED_COUNT
    /\ Len(entities) >= 2

\* C16: whenever the session is discarded, by restart (r) or by return to
\* the menu (escape), the high score afterwards is at least the score the
\* discarded session had, whether its player was alive or dead.
C16_Original ==
    [][ trace'.op \in {"restart", "end_game"} => app'.high_score >= score ]_vars

\* C17: Game.update(dt) called with a player that is not alive changes
\* nothing, for any dt: the player, camera_x, the active set and every
\* entity in it, score, speed and last_milestone are as before.
C17_FrozenWhenDead ==
    [][ (trace'.op = "tick" /\ ~player.alive) =>
          UNCHANGED <<player, camera_x, entities, score, speed,
                      last_milestone, nextId>> ]_vars

\* a long tick was run on a dead player, with an enemy still in the set
C17_Witness ==
    /\ trace.op = "tick"
    /\ trace.from = "dead"
    /\ trace.s = 60
    /\ ~player.alive
    /\ \E i \in DOMAIN entities : entities[i].kind = "enemy"

\* C18 as stated: in every state, after a tick and after a jump key between
\* ticks alike, every active entity is at or ahead of player.world_x - 220.
C18_Original ==
    \A i \in DOMAIN entities :
        entities[i].world_x >= player.world_x - Tenths(CULL_MARGIN)

\* C18 amended: after session creation and after every tick every active
\* entity is at or ahead of player.world_x - 220; a jump key moves the player
\* forward without a cull pass, and the next tick restores the bound.
C18_CutoffAfterTick ==
    trace.op \in {"none", "tick"} =>
        \A i \in DOMAIN entities :
            entities[i].world_x >= player.world_x - Tenths(CULL_MARGIN)

\* a tick left an entity less than a jump's boost inside the cutoff
C18_Witness ==
    /\ trace.op = "tick"
    /\ player.alive
    /\ \E i \in DOMAIN entities :
          /\ entities[i].world_x >= player.world_x - Tenths(CULL_MARGIN)
          /\ entities[i].world_x < player.world_x - Tenths(CULL_MARGIN - JUMP_BOOST)

\* C19: a session whose difficulty is none of Easy, Normal, Hard is set up
\* like a Normal session: the same base speed, the same potion weight and
\* so the same spawn weights.
C19_Original ==
    app.difficulty \notin DOMAIN DIFFICULTY_MOD =>
        /\ base_speed = BaseSpeed("Normal")
        /\ potion_weight = PotionWeight("Normal")
        /\ SpawnWeights(potion_weight) = SpawnWeights(PotionWeight("Normal"))

\* C20: a box overlapping the player changes nothing: the player's health,
\* alive and state are as before the contact, no sound is triggered, the
\* box is still in the active set after the tick, and the score moves only
\* by what the cull pass of the tick scored.
C20_BoxContact ==
    [][ /\ \A i \in DOMAIN trace'.contacts :
              LET c == trace'.contacts[i]
              IN  c.kind = "box" =>
                    /\ c.after.health = c.health
                    /\ c.after.alive = c.alive
                    /\ c.after.state = c.state
                    /\ c.sfx = <<>>
                    /\ c.id \in Ids(entities')
        /\ (trace'.contacts /= <<>> /\
              \A i \in DOMAIN trace'.contacts : trace'.contacts[i].kind = "box") =>
                /\ player'.health = player.health
                /\ player'.alive = player.alive
                /\ score' = score + Cardinality({ k \in DOMAIN trace'.culled :
                                       trace'.culled[k].scored }) ]_vars

\* a tick in which the running player overlapped a box: the box is still
\* there, the player as healthy as before
C20_Witness ==
    /\ trace.op = "tick"
    /\ \E i \in BoxContacts :
          /\ trace.contacts[i].state = "run"
          /\ trace.contacts[i].id \in Ids(entities)
          /\ trace.contacts[i].after.health = player.health
    /\ player.alive
    /\ player.state = "run"

\* C21: within one tick the player's health falls by at most 1, however
\* many enemies overlap the player in the tick's collision pass.
C21_Original ==
    [][ trace'.op = "tick" => player'.health >= player.health - 1 ]_vars

\* C22: after every Enemy.update an enemy at its left bound has direction
\* +1 and an enemy at its right bound has direction -1, also when the step
\* lands exactly on the bound.
C22_Original ==
    trace.op = "entities" =>
        \A i \in DOMAIN entities :
            entities[i].kind = "enemy" =>
                /\ (entities[i].world_x = entities[i].left => entities[i].dir = 1)
                /\ (entities[i].world_x = entities[i].right => entities[i].dir = -1)

\* C23: with take_damage(amt) and heal(amt) called with any amt >= 1,
\* health is in [0, PLAYER_MAX_HEALTH] after every call and the player is
\* dead (alive false, state Dead) exactly when health is 0.
C23_Original ==
    /\ player.health \in 0..PLAYER_MAX_HEALTH
    /\ (~player.alive /\ player.state = "dead") <=> player.health = 0

\* C24: every entity the cull pass removes scores (the removal condition
\* implies the score guard, the branch without score is never taken), so
\* the score, 0 at the start, is the number of entities culled so far.
C24_EveryCullScores ==
    [][ /\ \A k \in DOMAIN trace'.culled : trace'.culled[k].scored
        /\ score' = score + Len(trace'.culled) ]_vars

\* one stalled frame culled all the seeds at once: the score is their number
C24_Witness ==
    /\ trace.op = "tick"
    /\ Len(trace.culled) = SEED_COUNT
    /\ \A k \in DOMAIN trace.culled : trace.culled[k].scored
    /\ score = SEED_COUNT

\* C25: in a session, where damage is always 1, Player.die() never runs:
\* every death is the silent one at health 1, the death sound is never
\* triggered, and the hit sound only by contacts that leave the player alive.
C25_SilentDeathOnly ==
    /\ ~Played("death", trace.sfx)
    /\ \A i \in DOMAIN trace.contacts :
          LET c == trace.contacts[i]
          IN  /\ ~Played("death", c.sfx)
              /\ (Played("hit", c.sfx) => c.after.alive)
              /\ (c.alive /\ ~c.after.alive) =>
                    (c.kind = "enemy" /\ c.health = 1 /\ ~Played("hit", c.sfx))

\* the tick in which the player died: the fatal contact was at health 1,
\* and the tick played neither a hit sound for it nor the death sound
C25_Witness ==
    /\ trace.op = "tick"
    /\ trace.from /= "dead"
    /\ ~player.alive
    /\ \E i \in EnemyContacts :
          /\ trace.contacts[i].alive
          /\ ~trace.contacts[i].after.alive
          /\ trace.contacts[i].health = 1
          /\ ~Played("hit", trace.contacts[i].sfx)
    /\ ~Played("death", trace.sfx)

\* C26: after every tick that leaves the player alive, the state is "jump"
\* exactly when y < GROUND_Y; on the ground the state is Running and vel_y
\* is 0, also when the tick came right after a jump and left y at GROUND_Y.
C26_JumpIffAirborne ==
    (trace.op = "tick" /\ player.alive) =>
        /\ player.state = "jump" <=> Airborne
        /\ Grounded => (player.state = "run" /\ player.vel_y = 0)

\* a tick of dt = 0 right after a jump: y is still GROUND_Y, the jump is
\* cancelled, the player runs with vel_y = 0
C26_Witness ==
    /\ trace.op = "tick"
    /\ trace.from = "jump"
    /\ trace.s = 0
    /\ player.alive
    /\ player.state = "run"
    /\ player.vel_y = 0
    /\ Grounded

====
